---- MODULE Spec2Model ----
(***************************************************************************)
(* A model of adafruit_gfx.GFX: the canvas context and its drawing         *)
(* primitives.  The primitives are stateless: each call turns its          *)
(* arguments into a sequence of calls on the backend operations (pixel,    *)
(* hline, vline).  The model keeps the object's fields, the arguments of   *)
(* the call, and what the last call emitted.                               *)
(***************************************************************************)
EXTENDS Integers, Sequences, FiniteSets

VARIABLES
    self,     \* the GFX object: its fields after __init__ (or NoObject)
    raised,   \* the exception the last operation raised ("none" when it returned)
    arg,      \* the arguments the primitives are called with
    op,       \* the operation that ran last
    spans,    \* the calls made on self.hline / self.vline by the last operation
    rows,     \* fill_triangle: the scanlines its two loops visited, with the loop
    calls     \* the backend calls (pixel, supplied hline, supplied vline) emitted

vars == <<self, raised, arg, op, spans, rows, calls>>

\* ------------------------------------------------------------- bounds

MaxDim == 2        \* canvas width and height are drawn from 1..MaxDim
MaxSize == 2       \* rectangle and span sizes are drawn from 0..MaxSize
MaxLineCoord == 4  \* line endpoints are drawn from -MaxLineCoord..MaxLineCoord
MaxRadius == 12     \* circle radii are drawn from 0..MaxRadius
MaxTriCoord == 3   \* triangle vertices are drawn from -1..MaxTriCoord

\* ------------------------------------------------------------ helpers

abs(v) == IF v < 0 THEN 0 - v ELSE v

Max2(a, b) == IF a >= b THEN a ELSE b

Min2(a, b) == IF a <= b THEN a ELSE b

SeqRange(s) == {s[i] : i \in DOMAIN s}

\* A backend call, or a call on self.hline / self.vline: fn(x, y[, n]).
Call(fn, x, y, n) == [fn |-> fn, x |-> x, y |-> y, n |-> n]

\* self._pixel(x, y)
pixel(x, y) == Call("pixel", x, y, 1)

\* ------------------------------------------------------- the context

None == "None"

Backend == "backend"

NoObject ==
    [width |-> 0, height |-> 0, hline |-> "unbound", vline |-> "unbound",
     full_rect |-> "unbound"]

\* The attributes class GFX defines (its def statements).
ClassAttributes ==
    {"__init__", "_slow_hline", "_slow_vline", "rect", "_fill_rect", "line",
     "circle", "fill_circle", "triangle", "fill_triangle"}

\* self.<name> for a name that is no instance field: found on the class, or
\* AttributeError.
HasAttribute(name) == name \in ClassAttributes

\* GFX.__init__: the object built, or the exception raised.  With full_rect
\* omitted the constructor evaluates self._full_rect().
GFX_init(width, height, hline, vline, full_rect) ==
    LET hl == IF hline = None THEN "_slow_hline" ELSE hline
        vl == IF vline = None THEN "_slow_vline" ELSE vline
    IN  IF full_rect = None /\ ~HasAttribute("_full_rect")
        THEN [raised |-> "AttributeError", obj |-> NoObject]
        ELSE [raised |-> "none",
              obj |-> [width |-> width, height |-> height, hline |-> hl,
                       vline |-> vl,
                       full_rect |-> IF full_rect = None THEN "_full_rect()"
                                     ELSE full_rect]]

\* ------------------------------------------------- the span fallbacks

\* range(n) as the sequence 0, 1, ..., n-1 (empty for n <= 0).
RangeSeq(n) == [i \in 1..n |-> i - 1]

_slow_hline_reject(s, x0, y0, width) ==
    y0 < 0 \/ y0 > s.height \/ x0 < 0 - width \/ x0 > s.width

_slow_hline(s, x0, y0, width) ==
    IF _slow_hline_reject(s, x0, y0, width) THEN << >>
    ELSE [k \in 1..Len(RangeSeq(width)) |-> pixel(x0 + RangeSeq(width)[k], y0)]

_slow_vline_reject(s, x0, y0, height) ==
    y0 < 0 - height \/ y0 > s.height \/ x0 < 0 \/ x0 > s.width

_slow_vline(s, x0, y0, height) ==
    IF _slow_vline_reject(s, x0, y0, height) THEN << >>
    ELSE [k \in 1..Len(RangeSeq(height)) |-> pixel(x0, y0 + RangeSeq(height)[k])]

\* What one call on self.hline / self.vline reaches the backend as.
Resolve(s, c) ==
    IF c.fn = "hline"
    THEN IF s.hline = "_slow_hline" THEN _slow_hline(s, c.x, c.y, c.n) ELSE <<c>>
    ELSE IF c.fn = "vline"
    THEN IF s.vline = "_slow_vline" THEN _slow_vline(s, c.x, c.y, c.n) ELSE <<c>>
    ELSE <<c>>

RECURSIVE ResolveAll(_, _)
ResolveAll(s, cs) ==
    IF cs = << >> THEN << >> ELSE Resolve(s, Head(cs)) \o ResolveAll(s, Tail(cs))

\* ---------------------------------------------------------- rectangles

\* rect's test with the canvas edge itself rejected (>= for >).
rect_reject_ge(s, x0, y0, width, height) ==
    y0 < 0 - height \/ y0 >= s.height \/ x0 < 0 - width \/ x0 >= s.width

rect_reject(s, x0, y0, width, height) ==
    y0 < 0 - height \/ y0 > s.height \/ x0 < 0 - width \/ x0 > s.width

\* rect: the calls it makes on self.hline / self.vline.
rect(s, x0, y0, width, height) ==
    IF rect_reject(s, x0, y0, width, height) THEN << >>
    ELSE << Call("hline", x0, y0, width),
            Call("hline", x0, y0 + height - 1, width),
            Call("vline", x0, y0, height),
            Call("vline", x0 + width - 1, y0, height) >>

_fill_rect_reject(s, x0, y0, width, height) ==
    y0 < 0 - height \/ y0 > s.height \/ x0 < 0 - width \/ x0 > s.width

\* _fill_rect: one self.vline per column of range(x0, x0+width).
_fill_rect(s, x0, y0, width, height) ==
    IF _fill_rect_reject(s, x0, y0, width, height) THEN << >>
    ELSE [k \in 1..Len(RangeSeq(width)) |->
             Call("vline", x0 + RangeSeq(width)[k], y0, height)]

\* ---------------------------------------------------------------- line

line_steep(x0, y0, x1, y1) == abs(y1 - y0) > abs(x1 - x0)

\* line without the exchange of the endpoints.
line_swap_never(x0, x1) == FALSE

\* if x0 > x1: exchange the endpoints
line_swap(x0, x1) == x0 > x1

\* line's loop stopping one pixel short (< for <=).
line_while_lt(x0, x1) == x0 < x1

\* while x0 <= x1
line_while(x0, x1) == x0 <= x1

RECURSIVE line_loop(_, _, _, _, _, _, _, _)
line_loop(steep, x0, y0, x1, dx, dy, err, ystep) ==
    IF ~line_while(x0, x1) THEN << >>
    ELSE LET p == IF steep THEN pixel(y0, x0) ELSE pixel(x0, y0)
             e1 == err - dy
             yn == IF e1 < 0 THEN y0 + ystep ELSE y0
             e2 == IF e1 < 0 THEN e1 + dx ELSE e1
         IN  <<p>> \o line_loop(steep, x0 + 1, yn, x1, dx, dy, e2, ystep)

\* line: the pixels it emits, in order.
line(x0, y0, x1, y1) ==
    LET steep == line_steep(x0, y0, x1, y1)
        ax0 == IF steep THEN y0 ELSE x0
        ay0 == IF steep THEN x0 ELSE y0
        ax1 == IF steep THEN y1 ELSE x1
        ay1 == IF steep THEN x1 ELSE y1
        sw == line_swap(ax0, ax1)
        bx0 == IF sw THEN ax1 ELSE ax0
        bx1 == IF sw THEN ax0 ELSE ax1
        by0 == IF sw THEN ay1 ELSE ay0
        by1 == IF sw THEN ay0 ELSE ay1
        dx == bx1 - bx0
        dy == abs(by1 - by0)
        err == dx \div 2
        ystep == IF by0 < by1 THEN 1 ELSE 0 - 1
    IN  line_loop(steep, bx0, by0, bx1, dx, dy, err, ystep)

\* -------------------------------------------------------------- circles

circle_axis_points(x0, y0, radius) ==
    << pixel(x0, y0 + radius), pixel(x0, y0 - radius),
       pixel(x0 + radius, y0), pixel(x0 - radius, y0) >>

\* circle's eight points with a sign slip in the last one.
circle_points_lopsided(x0, y0, x, y) ==
    << pixel(x0 + x, y0 + y), pixel(x0 - x, y0 + y),
       pixel(x0 + x, y0 - y), pixel(x0 - x, y0 - y),
       pixel(x0 + y, y0 + x), pixel(x0 - y, y0 + x),
       pixel(x0 + y, y0 - x), pixel(x0 + y, y0 - x) >>

\* The eight points one iteration of circle's loop emits.
circle_points(x0, y0, x, y) ==
    << pixel(x0 + x, y0 + y), pixel(x0 - x, y0 + y),
       pixel(x0 + x, y0 - y), pixel(x0 - x, y0 - y),
       pixel(x0 + y, y0 + x), pixel(x0 - y, y0 + x),
       pixel(x0 + y, y0 - x), pixel(x0 - y, y0 - x) >>

\* circle's loop running one iteration more (<= for <).
circle_while_le(x, y) == x <= y

\* while x < y (circle)
circle_while(x, y) == x < y

RECURSIVE circle_loop(_, _, _, _, _, _, _)
circle_loop(x0, y0, f, ddF_x, ddF_y, x, y) ==
    IF ~circle_while(x, y) THEN << >>
    ELSE LET dec == f >= 0
             yn == IF dec THEN y - 1 ELSE y
             ddy == IF dec THEN ddF_y + 2 ELSE ddF_y
             f1 == IF dec THEN f + ddy ELSE f
             xn == x + 1
             ddx == ddF_x + 2
             f2 == f1 + ddx
         IN  circle_points(x0, y0, xn, yn)
                 \o circle_loop(x0, y0, f2, ddx, ddy, xn, yn)

\* circle: the pixels it emits, in order.
circle(x0, y0, radius) ==
    circle_axis_points(x0, y0, radius)
        \o circle_loop(x0, y0, 1 - radius, 1, (0 - 2) * radius, 0, radius)

\* fill_circle's four spans with the mirrored pair on the wrong side.
fill_circle_spans_onesided(x0, y0, x, y) ==
    << Call("vline", x0 + x, y0 - y, 2 * y + 1),
       Call("vline", x0 + y, y0 - x, 2 * x + 1),
       Call("vline", x0 + x, y0 - y, 2 * y + 1),
       Call("vline", x0 + y, y0 - x, 2 * x + 1) >>

\* The four self.vline calls one iteration of fill_circle's loop makes.
fill_circle_spans(x0, y0, x, y) ==
    << Call("vline", x0 + x, y0 - y, 2 * y + 1),
       Call("vline", x0 + y, y0 - x, 2 * x + 1),
       Call("vline", x0 - x, y0 - y, 2 * y + 1),
       Call("vline", x0 - y, y0 - x, 2 * x + 1) >>

\* while x < y (fill_circle)
fill_circle_while(x, y) == x < y

RECURSIVE fill_circle_loop(_, _, _, _, _, _, _)
fill_circle_loop(x0, y0, f, ddF_x, ddF_y, x, y) ==
    IF ~fill_circle_while(x, y) THEN << >>
    ELSE LET dec == f >= 0
             yn == IF dec THEN y - 1 ELSE y
             ddy == IF dec THEN ddF_y + 2 ELSE ddF_y
             f1 == IF dec THEN f + ddy ELSE f
             xn == x + 1
             ddx == ddF_x + 2
             f2 == f1 + ddx
         IN  fill_circle_spans(x0, y0, xn, yn)
                 \o fill_circle_loop(x0, y0, f2, ddx, ddy, xn, yn)

\* fill_circle: the calls it makes on self.vline, in order.
fill_circle(x0, y0, radius) ==
    << Call("vline", x0, y0 - radius, 2 * radius + 1) >>
        \o fill_circle_loop(x0, y0, 1 - radius, 1, (0 - 2) * radius, 0, radius)

\* ------------------------------------------------------- fill_triangle

\* Python's a // b for b > 0: the floor of a / b.
floordiv(a, b) == a \div b

\* if v[i].y > v[j].y: exchange vertices i and j (x carried along).
tri_swap_if(v, i, j) ==
    IF v[i].y > v[j].y THEN [v EXCEPT ![i] = v[j], ![j] = v[i]] ELSE v

\* The three conditional exchanges, in the code's order: (0,1), (1,2), (0,1).
tri_sort(v) == tri_swap_if(tri_swap_if(tri_swap_if(v, 1, 2), 2, 3), 1, 2)

\* One visited scanline: the loop (0: the flat case, 1, 2), the row and the
\* two bounds after a, b are put in order.
Row(phase, y, a, b) ==
    [phase |-> phase, y |-> y, a |-> Min2(a, b), b |-> Max2(a, b)]

\* The flat case y0 == y2: one span over the extent of the three x.
tri_flat(v) ==
    LET a1 == IF v[2].x < v[1].x THEN v[2].x ELSE v[1].x
        b1 == IF v[2].x < v[1].x THEN v[1].x
              ELSE IF v[2].x > v[1].x THEN v[2].x ELSE v[1].x
        a2 == IF v[3].x < a1 THEN v[3].x ELSE a1
        b2 == IF v[3].x < a1 THEN b1 ELSE IF v[3].x > b1 THEN v[3].x ELSE b1
    IN  << [phase |-> 0, y |-> v[1].y, a |-> a2, b |-> b2] >>

\* if dy == 0: dy = 1
tri_clamp(dy) == IF dy = 0 THEN 1 ELSE dy

\* last = y1 if y1 == y2 else y1 - 1
tri_last(y1, y2) == IF y1 = y2 THEN y1 ELSE y1 - 1

\* for y in range(y0, last+1): the rows of the first loop.
RECURSIVE tri_phase1(_, _, _, _, _, _, _, _, _)
tri_phase1(y, last, x0, sa, sb, dx01, dy01, dx02, dy02) ==
    IF y > last THEN << >>
    ELSE << Row(1, y, x0 + floordiv(sa, dy01), x0 + floordiv(sb, dy02)) >>
             \o tri_phase1(y + 1, last, x0, sa + dx01, sb + dx02,
                           dx01, dy01, dx02, dy02)

\* The value of y when the for statement is over: the last value range()
\* gave it, or, range() being empty, the 0 it was initialised to.
tri_y_after_for(y0, last) == IF y0 <= last THEN last ELSE 0

\* while y <= y2: the rows of the second loop.
RECURSIVE tri_phase2(_, _, _, _, _, _, _, _, _, _)
tri_phase2(y, y2, x0, x1, sa, sb, dx12, dy12, dx02, dy02) ==
    IF ~(y <= y2) THEN << >>
    ELSE << Row(2, y, x1 + floordiv(sa, dy12), x0 + floordiv(sb, dy02)) >>
             \o tri_phase2(y + 1, y2, x0, x1, sa + dx12, sb + dx02,
                           dx12, dy12, dx02, dy02)

\* fill_triangle: the scanlines it visits, in order; each is one self.hline.
fill_triangle(x0, y0, x1, y1, x2, y2) ==
    LET v == tri_sort(<< [x |-> x0, y |-> y0], [x |-> x1, y |-> y1],
                         [x |-> x2, y |-> y2] >>)
        dx01 == v[2].x - v[1].x
        dy01 == tri_clamp(v[2].y - v[1].y)
        dx02 == v[3].x - v[1].x
        dy02 == tri_clamp(v[3].y - v[1].y)
        dx12 == v[3].x - v[2].x
        dy12 == tri_clamp(v[3].y - v[2].y)
        last == tri_last(v[2].y, v[3].y)
        y == tri_y_after_for(v[1].y, last)
    IN  IF v[1].y = v[3].y THEN tri_flat(v)
        ELSE tri_phase1(v[1].y, last, v[1].x, 0, 0, dx01, dy01, dx02, dy02)
             \o tri_phase2(y, v[3].y, v[1].x, v[2].x,
                           dx12 * (y - v[2].y), dx02 * (y - v[1].y),
                           dx12, dy12, dx02, dy02)

\* self.hline(a, y, b-a+1) for each visited scanline.
tri_spans(rs) ==
    [k \in DOMAIN rs |-> Call("hline", rs[k].a, rs[k].y, rs[k].b - rs[k].a + 1)]

\* ------------------------------------------------------------- actions

Supplied == {None, Backend}

Dims == 1..MaxDim

\* GFX(width, height, pixel, hline, vline, full_rect)
Construct ==
    /\ self = NoObject
    /\ raised = "none"
    /\ \E width \in Dims, height \in Dims, hline \in Supplied,
          vline \in Supplied, full_rect \in Supplied :
          LET r == GFX_init(width, height, hline, vline, full_rect)
          IN  /\ self' = r.obj
              /\ raised' = r.raised
    /\ op' = "__init__"
    /\ spans' = << >>
    /\ rows' = << >>
    /\ calls' = << >>
    /\ UNCHANGED arg

\* There is an object to call a method on.
Constructed == self # NoObject

\* A method call on the constructed object that makes the calls ss on
\* self.hline / self.vline / self._pixel and returns.
Invoke(name, ss, rs) ==
    /\ op' = name
    /\ spans' = ss
    /\ rows' = rs
    /\ calls' = ResolveAll(self, ss)
    /\ raised' = "none"
    /\ UNCHANGED <<self, arg>>

SlowHline ==
    /\ Constructed
    /\ Invoke("_slow_hline",
              _slow_hline(self, arg.x0, arg.y0, arg.width), << >>)

SlowVline ==
    /\ Constructed
    /\ Invoke("_slow_vline",
              _slow_vline(self, arg.x0, arg.y0, arg.height), << >>)

Rect ==
    /\ Constructed
    /\ Invoke("rect",
              rect(self, arg.x0, arg.y0, arg.width, arg.height), << >>)

FillRect ==
    /\ Constructed
    /\ Invoke("_fill_rect",
              _fill_rect(self, arg.x0, arg.y0, arg.width, arg.height), << >>)

Line ==
    /\ Constructed
    /\ Invoke("line", line(arg.x0, arg.y0, arg.x1, arg.y1), << >>)

Circle ==
    /\ Constructed
    /\ Invoke("circle", circle(arg.x0, arg.y0, arg.radius), << >>)

FillCircle ==
    /\ Constructed
    /\ Invoke("fill_circle", fill_circle(arg.x0, arg.y0, arg.radius), << >>)

FillTriangle ==
    /\ Constructed
    /\ LET rs == fill_triangle(arg.x0, arg.y0, arg.x1, arg.y1, arg.x2, arg.y2)
       IN  Invoke("fill_triangle", tri_spans(rs), rs)

\* ------------------------------------------------------ specifications

Idle ==
    /\ raised = "none"
    /\ op = "none"
    /\ spans = << >>
    /\ rows = << >>
    /\ calls = << >>

\* The objects a successful construction gives (full_rect supplied), on the
\* largest canvas: what the span fallbacks let through depends on the
\* canvas, what the primitives ask for does not.
SpanObjects ==
    {GFX_init(MaxDim, MaxDim, hl, vl, Backend).obj :
        hl \in Supplied, vl \in Supplied}

RectCoords == (0 - MaxSize - 1)..(MaxDim + 1)

Sizes == 0..MaxSize

\* The context and the rectangle family: construction, then rect,
\* _fill_rect and the two fallbacks on the arguments drawn.
Init ==
    /\ self = NoObject
    /\ arg \in [x0 : RectCoords, y0 : RectCoords, width : Sizes, height : Sizes]
    /\ Idle

Next == Construct \/ SlowHline \/ SlowVline \/ Rect \/ FillRect

Spec == Init /\ [][Next]_vars

LineCoords == (0 - MaxLineCoord)..MaxLineCoord

InitLine ==
    /\ self \in SpanObjects
    /\ arg \in [x0 : LineCoords, y0 : LineCoords, x1 : LineCoords, y1 : LineCoords]
    /\ Idle

NextLine == Line

SpecLine == InitLine /\ [][NextLine]_vars

Centres == {0 - 1, 0, 1}

InitCircle ==
    /\ self \in SpanObjects
    /\ arg \in [x0 : Centres, y0 : Centres, radius : 0..MaxRadius]
    /\ Idle

NextCircle == Circle \/ FillCircle

SpecCircle == InitCircle /\ [][NextCircle]_vars

TriCoords == (0 - 1)..MaxTriCoord

InitTri ==
    /\ self \in SpanObjects
    /\ arg \in [x0 : TriCoords, y0 : TriCoords, x1 : TriCoords, y1 : TriCoords,
                x2 : TriCoords, y2 : TriCoords]
    /\ Idle

NextTri == FillTriangle

SpecTri == InitTri /\ [][NextTri]_vars

\* =============================================================== claims

NoRepeat(s) == \A i, j \in DOMAIN s : i # j => s[i] # s[j]

\* ---- fill_triangle (SpecTri)

SortedVertices ==
    tri_sort(<< [x |-> arg.x0, y |-> arg.y0], [x |-> arg.x1, y |-> arg.y1],
                [x |-> arg.x2, y |-> arg.y2] >>)

TriGeneral ==
    op = "fill_triangle" /\ ~(arg.y0 = arg.y1 /\ arg.y1 = arg.y2)

TriMinY == Min2(arg.y0, Min2(arg.y1, arg.y2))

TriMaxY == Max2(arg.y0, Max2(arg.y1, arg.y2))

TriMinX == Min2(arg.x0, Min2(arg.x1, arg.x2))

TriMaxX == Max2(arg.x0, Max2(arg.x1, arg.x2))

\* C1: for vertices whose y are not all equal, fill_triangle emits exactly
\* one span per row from the smallest vertex y to the largest, in ascending
\* order: no row skipped, none drawn twice, none outside that range.
TriOneSpanPerRow ==
    TriGeneral =>
        /\ Len(spans) = TriMaxY - TriMinY + 1
        /\ \A k \in DOMAIN spans :
              spans[k].fn = "hline" /\ spans[k].y = TriMinY + k - 1

\* The x of the edge from vertex p to vertex q at row y, by floor division.
EdgeAt(p, q, y) ==
    IF q.y = p.y THEN p.x ELSE p.x + ((q.x - p.x) * (y - p.y)) \div (q.y - p.y)

\* C2: every span emitted at row y runs between the vertex0->2 edge and the
\* short edge whose y-range contains y (vertex0->1 above vertex 1, vertex1->2
\* from vertex 1 down), both interpolated by floor division; so no span
\* leaves the vertices' horizontal extent.
TriSpanIsEdgeInterpolation ==
    TriGeneral =>
        \A k \in DOMAIN spans :
            LET v == SortedVertices
                y == spans[k].y
                long == EdgeAt(v[1], v[3], y)
                short == IF y < v[2].y THEN EdgeAt(v[1], v[2], y)
                         ELSE EdgeAt(v[2], v[3], y)
            IN  /\ v[1].y <= y /\ y <= v[3].y
                /\ spans[k].x = Min2(long, short)
                /\ spans[k].x + spans[k].n - 1 = Max2(long, short)
                /\ TriMinX <= spans[k].x
                /\ spans[k].x + spans[k].n - 1 <= TriMaxX

\* C10: in the general case, when an edge's vertical delta is 0 (and is
\* replaced by 1), neither loop visits a row that interpolates along that
\* edge: loop 1 divides by dy01, loop 2 by dy12.
TriClampedEdgeNeverVisited ==
    TriGeneral =>
        LET v == SortedVertices
        IN  /\ v[1].y = v[2].y => \A k \in DOMAIN rows : rows[k].phase # 1
            /\ v[2].y = v[3].y => \A k \in DOMAIN rows : rows[k].phase # 2

\* ---- the constructor (Spec)

\* C3: construction raises no error whichever optional operations are given
\* or left out, and leaves hline and vline bound.
CtorNeverRaisesAndBindsSpans ==
    op = "__init__" =>
        /\ raised = "none"
        /\ self.hline \in {"_slow_hline", Backend}
        /\ self.vline \in {"_slow_vline", Backend}

\* ---- line (SpecLine)

LineSteep == abs(arg.y1 - arg.y0) > abs(arg.x1 - arg.x0)

Major(c) == IF LineSteep THEN c.y ELSE c.x

Minor(c) == IF LineSteep THEN c.x ELSE c.y

\* C4: line emits max(|x1-x0|, |y1-y0|) + 1 pixels, a chain between the two
\* endpoints: the major-axis coordinate advances by exactly 1 per pixel (so
\* it takes each value between the endpoints once) and the minor-axis
\* coordinate changes by at most 1 between consecutive pixels.
LineGapFreeChain ==
    op = "line" =>
        LET n == Max2(abs(arg.x1 - arg.x0), abs(arg.y1 - arg.y0)) + 1
        IN  /\ Len(calls) = n
            /\ \A k \in 1..n : calls[k].fn = "pixel"
            /\ {calls[1], calls[n]} =
                   {pixel(arg.x0, arg.y0), pixel(arg.x1, arg.y1)}
            /\ \A k \in 1..(n - 1) :
                  /\ Major(calls[k + 1]) = Major(calls[k]) + 1
                  /\ abs(Minor(calls[k + 1]) - Minor(calls[k])) <= 1

LineGapFreeChainWitness ==
    /\ op = "line"
    /\ LineSteep
    /\ arg.y0 > arg.y1
    /\ arg.x0 # arg.x1
    /\ Len(calls) >= 4

\* C5: line(x0,y0,x1,y1) and line(x1,y1,x0,y0) emit the same set of pixels.
LineSwapSymmetric ==
    op = "line" =>
        SeqRange(calls) = SeqRange(line(arg.x1, arg.y1, arg.x0, arg.y0))

LineSwapSymmetricWitness ==
    /\ op = "line"
    /\ arg.x0 > arg.x1
    /\ arg.y0 # arg.y1
    /\ ~LineSteep
    /\ Cardinality(SeqRange(calls)) >= 3

\* ---- circles (SpecCircle)

\* C6: for radius r >= 0 the spans of fill_circle form a solid disk: every
\* column of x0-r..x0+r gets a span, every span is (column, y0-h, 2h+1) with
\* 0 <= h <= r, and no span lies on a column outside x0-r..x0+r.
FillCircleSolidDisk ==
    op = "fill_circle" =>
        LET r == arg.radius
        IN  /\ \A c \in (arg.x0 - r)..(arg.x0 + r) :
                  \E k \in DOMAIN spans : spans[k].x = c
            /\ \A k \in DOMAIN spans :
                  /\ spans[k].fn = "vline"
                  /\ spans[k].x \in (arg.x0 - r)..(arg.x0 + r)
                  /\ \E h \in 0..r :
                        spans[k].y = arg.y0 - h /\ spans[k].n = 2 * h + 1

FillCircleSolidDiskWitness ==
    /\ op = "fill_circle"
    /\ arg.radius >= 5
    /\ \E k \in DOMAIN spans : spans[k].x = arg.x0 - arg.radius
    /\ \E k \in DOMAIN spans : spans[k].x = arg.x0 + 3 /\ spans[k].n > 1

CirclePoints == {<<c.x - arg.x0, c.y - arg.y0>> : c \in SeqRange(calls)}

\* C7: for r >= 1 the pixels of circle are symmetric under the 8 reflections
\* about the centre: with (x0+a, y0+b) come (x0+-a, y0+-b) and (x0+-b, y0+-a).
CircleEightfoldSymmetric ==
    op = "circle" /\ arg.radius >= 1 =>
        \A p \in CirclePoints :
            \A sa \in {0 - 1, 1}, sb \in {0 - 1, 1} :
                /\ <<sa * p[1], sb * p[2]>> \in CirclePoints
                /\ <<sa * p[2], sb * p[1]>> \in CirclePoints

CircleEightfoldSymmetricWitness ==
    /\ op = "circle"
    /\ arg.radius >= 5
    /\ \E p \in CirclePoints : p[1] > 0 /\ p[2] > p[1]

\* C8 as stated: for r >= 1 no pixel coordinate is passed to the pixel
\* operation more than once by one circle call.
CircleNoPointTwice ==
    op = "circle" /\ arg.radius >= 1 => NoRepeat(calls)

\* C8 as amended: for r >= 1 the four axis points and the points of every
\* loop iteration but the last are pairwise distinct, and the last iteration
\* (the one that ends the loop, with x >= y) passes a coordinate again;
\* radius 0 passes the centre four times.
CircleRepeatsOnlyInLastIteration ==
    op = "circle" =>
        /\ arg.radius >= 1 =>
              /\ Len(calls) >= 12
              /\ NoRepeat(SubSeq(calls, 1, Len(calls) - 8))
              /\ \E i \in DOMAIN calls, j \in (Len(calls) - 7)..Len(calls) :
                    i # j /\ calls[i] = calls[j]
        /\ arg.radius = 0 =>
              calls = [k \in 1..4 |-> pixel(arg.x0, arg.y0)]

CircleRepeatsOnlyInLastIterationWitness ==
    /\ op = "circle"
    /\ arg.radius >= 4
    /\ Len(calls) >= 28
    /\ ~NoRepeat(calls)

\* ---- bounds rejection (Spec)

\* C9: rect, _fill_rect and the two span fallbacks make no backend call when
\* their rejection test holds; the comparison with the canvas size is
\* strict, so a shape starting at x = canvas width or y = canvas height (and
\* otherwise inside) is let through.
RejectionEmitsNothing ==
    LET x == arg.x0
        y == arg.y0
        w == arg.width
        h == arg.height
        up == y < 0 - h \/ x < 0 - w
        atEdge == (x = self.width /\ y \in 0..self.height)
                      \/ (y = self.height /\ x \in 0..self.width)
    IN  /\ op \in {"rect", "_fill_rect"} =>
            /\ (up \/ y > self.height \/ x > self.width)
                   => spans = << >> /\ calls = << >>
            /\ atEdge =>
                   Len(spans) = IF op = "rect" THEN 4 ELSE w
        /\ op = "_slow_hline" =>
            /\ (y < 0 \/ y > self.height \/ x < 0 - w \/ x > self.width)
                   => calls = << >>
            /\ atEdge => Len(calls) = w
        /\ op = "_slow_vline" =>
            /\ (x < 0 \/ x > self.width \/ y < 0 - h \/ y > self.height)
                   => calls = << >>
            /\ atEdge => Len(calls) = h

RejectionEmitsNothingWitness ==
    /\ op = "rect"
    /\ self.hline = Backend
    /\ self.vline = "_slow_vline"
    /\ arg.x0 = self.width + 1
    /\ arg.y0 = 0
    /\ arg.width > 0
    /\ arg.height > 0
    /\ calls = << >>

====
